---- MODULE Spec2Model ----
(***************************************************************************)
(* BucketManager of helpers/multiaspect/bucket.py: the aspect-ratio bucket *)
(* index, the set of discovered files, the cache document kept in the data *)
(* backend, and the worker processes of                                    *)
(* compute_aspect_ratio_bucket_indices.                                    *)
(*                                                                         *)
(* An image file is a number of Files and stands for the string key of the *)
(* file in the backend.  A bucket index (a Python dict of lists) is a      *)
(* function from a subset of Keys to sequences of files.                   *)
(***************************************************************************)
EXTENDS Integers, Sequences, FiniteSets, TLC

\* ------------------------------------------------------------------ bounds
\* The files the backend may hold.
MaxFiles == 3
\* The index never holds more than this many entries (handle_incorrect_bucket
\* can append without limit).
MaxEntries == 3
\* The number of worker processes.  The source fixes it at 8 (bucket.py:155);
\* the model runs fewer workers so that one shard can hold several files.
num_cpus == 2
\* The batch size the manager was constructed with.
batch_size == 2

\* The repair operations (remove_image, handle_incorrect_bucket,
\* handle_small_image) one run calls.
MaxRepairs == 2

\* The processes that call the seen-images operations.
NumProcs == 2
\* The processes (ranks) the accelerator splits the buckets between.
num_processes == 2

Files == 1..MaxFiles
Keys == {"1:1", "16:9"}
Workers == 1..num_cpus
Procs == 1..NumProcs
Ranks == 1..num_processes
FieldNames == {"aspect_ratio_bucket_indices", "instance_images_path"}

VARIABLES
    listing,                            \* the image files the backend lists
    cache,                              \* the cache document in the backend
    mgr,                                \* "new", "ready" or "failed" (construction raised)
    aspect_ratio_bucket_indices,        \* self.aspect_ratio_bucket_indices
    instance_images_path,               \* self.instance_images_path
    pc,                                 \* where the orchestrating process is
    op,                                 \* the public operation it is running
    new_files,                          \* compute: new_files
    existing_files_set,                 \* compute: existing_files_set
    files_split,                        \* compute: files_split, one shard per worker
    wstate,                             \* worker: "none", "run", "put" (its partial index is on the queue) or "dead"
    local_aspect_ratio_bucket_indices,  \* worker: its partial index
    tqdm_queue,                         \* number of progress units on tqdm_queue
    aspect_ratio_bucket_indices_queue,  \* the partial indices on the results queue
    failed,                             \* files process_for_bucket failed on in this call
    last,                               \* the operation that returned last, and what it saw
    snap,                               \* manager and cache as the previous refresh left them
    quiet,                              \* the listing is unchanged since the running/last refresh began
    repairs,                            \* the repair operations called so far
    manager_of,                         \* process: the process whose __init__ made the Manager its proxy talks to
    seen_images,                        \* Manager process: the keys of its seen_images dict
    call,                               \* process: the seen-images call it is in
    known_seen,                         \* the files a completed mark_as_seen has marked, no reset begun since
    known_unseen,                       \* the files no mark_as_seen has begun for since the ledger was new or reset
    apply_dataset_padding,              \* self.apply_dataset_padding
    rank_indices,                       \* rank: self.aspect_ratio_bucket_indices of its manager
    rank_split                          \* rank: it has called split_buckets_between_processes

ledgerVars == <<manager_of, seen_images, call, known_seen, known_unseen>>
rankVars == <<apply_dataset_padding, rank_indices, rank_split>>

vars == <<listing, cache, mgr, aspect_ratio_bucket_indices, instance_images_path,
          pc, op, new_files, existing_files_set, files_split, wstate,
          local_aspect_ratio_bucket_indices, tqdm_queue,
          aspect_ratio_bucket_indices_queue, failed, last, snap, quiet, repairs,
          ledgerVars, rankVars>>

\* ----------------------------------------------------------------- helpers
Range(s) == {s[i] : i \in DOMAIN s}

EmptyIndex == [k \in {} |-> <<>>]

\* The files of an index: set().union(*index.values()); of an index with no
\* bucket, the empty set.
IndexFilesOfDiscovered(idx) ==
    instance_images_path \cup UNION {Range(idx[k]) : k \in DOMAIN idx}
IndexFiles(idx) == UNION {Range(idx[k]) : k \in DOMAIN idx}

RECURSIVE SumLen(_, _)
SumLen(idx, ks) ==
    IF ks = {} THEN 0
    ELSE LET k == CHOOSE x \in ks : TRUE
         IN  Len(idx[k]) + SumLen(idx, ks \ {k})

\* BucketManager.__len__
IndexLen(idx) == SumLen(idx, DOMAIN idx)

RECURSIVE SortedSeq(_)
SortedSeq(S) ==
    IF S = {} THEN <<>>
    ELSE LET m == CHOOSE x \in S : \A y \in S : x <= y
         IN  <<m>> \o SortedSeq(S \ {m})

\* list.remove(x): drops the first occurrence of x.
RECURSIVE RemoveFirst(_, _)
RemoveFirst(s, x) ==
    IF s = <<>> THEN <<>>
    ELSE IF Head(s) = x THEN Tail(s)
    ELSE <<Head(s)>> \o RemoveFirst(Tail(s), x)

\* index.setdefault(key, []).extend(value)
Extend(idx, key, value) ==
    [k \in DOMAIN idx \cup {key} |->
        (IF k \in DOMAIN idx THEN idx[k] ELSE <<>>) \o (IF k = key THEN value ELSE <<>>)]

RECURSIVE MergeKeys(_, _, _)
MergeKeys(idx, update, ks) ==
    IF ks = {} THEN idx
    ELSE LET k == CHOOSE x \in ks : TRUE
         IN  MergeKeys(Extend(idx, k, update[k]), update, ks \ {k})

\* The loop of lines 186-189 over one partial index.
Merge(idx, update) == MergeKeys(idx, update, DOMAIN update)

\* ------------------------------------------------------------ the backend
\* data_backend.list_files, flattened: the keys in the backend's order.
list_files == SortedSeq(listing)

AbsentCache == [kind |-> "absent", fields |-> {}, idx |-> EmptyIndex, paths |-> <<>>]
UnreadableCache == [kind |-> "unreadable", fields |-> {}, idx |-> EmptyIndex, paths |-> <<>>]
GarbageCache == [kind |-> "garbage", fields |-> {}, idx |-> EmptyIndex, paths |-> <<>>]
NonObjectCache == [kind |-> "nonobject", fields |-> {}, idx |-> EmptyIndex, paths |-> <<>>]

\* A JSON object holding the fields fs of the document save writes for (idx, paths).
ObjectCache(fs, idx, paths) ==
    [kind |-> "object", fields |-> fs,
     idx |-> IF "aspect_ratio_bucket_indices" \in fs THEN idx ELSE EmptyIndex,
     paths |-> IF "instance_images_path" \in fs THEN paths ELSE <<>>]

\* The documents an earlier run may have left, whole or with fields missing.
SavedDocuments ==
    { <<EmptyIndex, <<>> >>,
      <<[k \in {"1:1"} |-> <<1, 2>>], <<1, 2>> >>,
      <<[k \in {"1:1"} |-> <<1, 2>>], <<1, 2, 3>> >> }

InitCaches ==
    {AbsentCache, UnreadableCache, GarbageCache, NonObjectCache}
    \cup {ObjectCache(fs, d[1], d[2]) : fs \in SUBSET FieldNames, d \in SavedDocuments}

\* ---------------------------------------------------------- pure functions
\* _discover_new_files: the listed files that are not in instance_images_path.
DiscoverAll(files, discovered) == files
_discover_new_files(files, discovered) ==
    SelectSeq(files, LAMBDA f : f \notin discovered)

\* Line 149, `if not new_files`: there is nothing to bucket.
NoNewFilesIgnored(found) == FALSE
NoNewFiles(found) == found = <<>>

\* np.array_split(s, n): n contiguous shards, the first Len(s) % n one longer.
array_split(s, n) ==
    LET q == Len(s) \div n
        r == Len(s) % n
        start(i) == (i - 1) * q + (IF i - 1 < r THEN i - 1 ELSE r)
        size(i) == q + (IF i <= r THEN 1 ELSE 0)
    IN  [i \in 1..n |-> SubSeq(s, start(i) + 1, start(i) + size(i))]

\* _enforce_min_bucket_size: drops the buckets shorter than batch_size.
EnforceOffByOne(idx) ==
    [k \in {x \in DOMAIN idx : Len(idx[x]) > batch_size} |-> idx[k]]
_enforce_min_bucket_size(idx) ==
    [k \in {x \in DOMAIN idx : Len(idx[x]) >= batch_size} |-> idx[k]]

\* The document _save_cache writes for an (already pruned) index: every path
\* is a string already, so str(path) gives it back; the set becomes a list.
CacheDocumentDropsPaths(idx, discovered) ==
    ObjectCache({"aspect_ratio_bucket_indices"}, idx, <<>>)
CacheDocument(idx, discovered) ==
    ObjectCache(FieldNames, idx, SortedSeq(discovered))

\* The filter of update_buckets_with_existing_files, lines 246-249.
FilterKeepsAll(idx, existing_files) == idx
FilterExisting(idx, existing_files) ==
    [k \in DOMAIN idx |-> SelectSeq(idx[k], LAMBDA img : img \in existing_files)]

\* instance_images_path.update(new_files), line 194.
UpdateBucketedOnly(discovered, files, idx) == discovered \cup (Range(files) \cap IndexFiles(idx))
UpdateDiscovered(discovered, files, idx) == discovered \cup Range(files)

\* The aspect-ratio key of a readable image.
BucketOf(f) == IF f <= 2 THEN "1:1" ELSE "16:9"

\* MultiaspectImage.process_for_bucket: the file is appended to the list of
\* its key; a failure to read or decode it is caught and the index returned
\* as it was.
process_for_bucket(f, idx, readable) ==
    IF readable THEN Extend(idx, BucketOf(f), <<f>>) ELSE idx

\* ------------------------------------------------------------------- state
\* What the operation that returned last was and saw: the files it was given
\* (new_files, or existing_files, or image_path), whether it began with an
\* empty index and an empty discovered set, what was left on the results
\* queue, the files process_for_bucket failed on, and the files of the
\* buckets _enforce_min_bucket_size dropped, the exception it raised to its
\* caller ("none" when it returned), and how often it wrote the cache document.
NoCall ==
    [op |-> "none", files |-> {}, from_empty |-> FALSE, unmerged |-> <<>>,
     failed |-> {}, evicted |-> {}, error |-> "none", writes |-> 0]

\* The operation raised KeyError (a bucket that is no key of the index).
Raised(name) == [NoCall EXCEPT !.op = name, !.error = "KeyError"]

\* The files of the buckets of idx that _enforce_min_bucket_size drops.
Evicted(idx) == IndexFiles(idx) \ IndexFiles(_enforce_min_bucket_size(idx))

Returned(name, files, saved) ==
    [NoCall EXCEPT !.op = name, !.files = files, !.evicted = Evicted(saved)]

\* The same for an operation that ended with _save_cache: one write.
Saved(name, files, saved) == [Returned(name, files, saved) EXCEPT !.writes = 1]

NoSnap == [taken |-> FALSE, idx |-> EmptyIndex, paths |-> {}, cache |-> AbsentCache]

NoWorkers == [w \in Workers |-> "none"]

\* No process is in a seen-images call; every process talks to the Manager
\* that the __init__ of one manager object made (lines 34-36).
NoCallRunning == [op |-> "none", ref |-> 0, phase |-> "idle", result |-> FALSE,
                  must |-> "any", dirty |-> {}]

NoLedger ==
    /\ manager_of = [p \in Procs |-> 1]
    /\ seen_images = [p \in Procs |-> {}]
    /\ call = [p \in Procs |-> NoCallRunning]
    /\ known_seen = {}
    /\ known_unseen = Files

\* No rank has been given the index.
NoRanks ==
    /\ apply_dataset_padding = FALSE
    /\ rank_indices = [r \in Ranks |-> EmptyIndex]
    /\ rank_split = [r \in Ranks |-> FALSE]

Init ==
    /\ listing = Files
    /\ cache \in InitCaches
    /\ mgr = "new"
    /\ NoLedger
    /\ NoRanks
    /\ aspect_ratio_bucket_indices = EmptyIndex
    /\ instance_images_path = {}
    /\ pc = "idle"
    /\ op = "none"
    /\ new_files = <<>>
    /\ existing_files_set = {}
    /\ files_split = [w \in Workers |-> <<>>]
    /\ wstate = NoWorkers
    /\ local_aspect_ratio_bucket_indices = [w \in Workers |-> EmptyIndex]
    /\ tqdm_queue = 0
    /\ aspect_ratio_bucket_indices_queue = <<>>
    /\ failed = {}
    /\ last = NoCall
    /\ snap = NoSnap
    /\ quiet = FALSE
    /\ repairs = 0

callVars == <<new_files, existing_files_set, files_split, wstate,
              local_aspect_ratio_bucket_indices, tqdm_queue,
              aspect_ratio_bucket_indices_queue, failed>>

\* The locals of a call of compute_aspect_ratio_bucket_indices are gone.
CallOver ==
    /\ new_files' = <<>>
    /\ existing_files_set' = {}
    /\ files_split' = [w \in Workers |-> <<>>]
    /\ wstate' = NoWorkers
    /\ local_aspect_ratio_bucket_indices' = [w \in Workers |-> EmptyIndex]
    /\ tqdm_queue' = 0
    /\ aspect_ratio_bucket_indices_queue' = <<>>
    /\ failed' = {}

\* An operation other than refresh_buckets ends a pair of refreshes in a row.
NotRefresh == snap' = NoSnap /\ quiet' = FALSE

Idle == mgr = "ready" /\ pc = "idle"

\* ------------------------------------------------------------ construction
\* What json.loads gave, or the {} of the except clause (lines 76-84).
cache_data(document) ==
    IF document.kind = "object" THEN document ELSE ObjectCache({}, EmptyIndex, <<>>)

\* _load_cache over a manager that __init__ has just made (an empty index, an
\* empty set): what it leaves, or that it raised.  A document that json.loads
\* decodes to a value that is no dict has no .get: line 85 raises.  A field
\* the document does not hold is the default of .get; the list of paths
\* becomes a set (line 88).
_load_cache(document) ==
    IF document.kind = "absent"
    THEN [raised |-> FALSE, idx |-> EmptyIndex, paths |-> {}]
    ELSE IF document.kind = "nonobject"
    THEN [raised |-> TRUE, idx |-> EmptyIndex, paths |-> {}]
    ELSE [raised |-> FALSE,
          idx |-> IF "aspect_ratio_bucket_indices" \in cache_data(document).fields
                  THEN cache_data(document).idx ELSE EmptyIndex,
          paths |-> IF "instance_images_path" \in cache_data(document).fields
                    THEN Range(cache_data(document).paths) ELSE {}]

\* __init__ line 37, _load_cache.
load_cache ==
    /\ mgr = "new"
    /\ mgr' = IF _load_cache(cache).raised THEN "failed" ELSE "ready"
    /\ aspect_ratio_bucket_indices' = _load_cache(cache).idx
    /\ instance_images_path' = _load_cache(cache).paths
    /\ last' = [NoCall EXCEPT !.op = "load"]
    /\ NotRefresh
    /\ UNCHANGED <<listing, cache, pc, op, callVars>>
    /\ UNCHANGED <<repairs, ledgerVars, rankVars>>

\* ------------------------------------------------------------- environment
\* A file arrives in the backend.  The manager reads the listing on entry to
\* compute (line 51) and in refresh_buckets (line 263) only, so a change of
\* the listing while the workers run is a change before the next of these.
AddFile(f) ==
    /\ pc \in {"idle", "list_files"}
    /\ f \notin listing
    /\ listing' = listing \cup {f}
    /\ quiet' = FALSE
    /\ UNCHANGED <<cache, mgr, aspect_ratio_bucket_indices, instance_images_path,
                   pc, op, callVars, last, snap>>
    /\ UNCHANGED <<repairs, ledgerVars, rankVars>>

\* A file is removed from the backend by someone else.
DeleteFile(f) ==
    /\ pc \in {"idle", "list_files"}
    /\ f \in listing
    /\ listing' = listing \ {f}
    /\ quiet' = FALSE
    /\ UNCHANGED <<cache, mgr, aspect_ratio_bucket_indices, instance_images_path,
                   pc, op, callVars, last, snap>>
    /\ UNCHANGED <<repairs, ledgerVars, rankVars>>

\* ------------------------------------ compute_aspect_ratio_bucket_indices
\* Lines 146-176 (for refresh_buckets, line 259 first): discovery, the early
\* return, the shards, the queues and the start of the workers.
Start(name) ==
    /\ Idle
    /\ IF name = "refresh"
       THEN /\ snap' = IF last.op = "refresh" /\ quiet
                       THEN [taken |-> TRUE, idx |-> aspect_ratio_bucket_indices,
                             paths |-> instance_images_path, cache |-> cache]
                       ELSE NoSnap
            /\ quiet' = TRUE
       ELSE NotRefresh
    /\ LET found == _discover_new_files(list_files, instance_images_path)
       IN  IF NoNewFiles(found)
           THEN /\ pc' = IF name = "refresh" THEN "list_files" ELSE "idle"
                /\ op' = IF name = "refresh" THEN name ELSE "none"
                /\ last' = Returned("no_new_files", {}, EmptyIndex)
                /\ UNCHANGED callVars
           ELSE /\ pc' = "is_alive"
                /\ op' = name
                /\ new_files' = found
                /\ existing_files_set' = IndexFiles(aspect_ratio_bucket_indices)
                /\ files_split' = array_split(found, num_cpus)
                /\ wstate' = [w \in Workers |-> "run"]
                            /\ local_aspect_ratio_bucket_indices' = [w \in Workers |-> EmptyIndex]
                /\ tqdm_queue' = 0
                /\ aspect_ratio_bucket_indices_queue' = <<>>
                /\ failed' = {}
                /\ last' = [NoCall EXCEPT
                                !.op = "running", !.files = Range(found),
                                !.from_empty = (/\ cache.kind = "absent"
                                                /\ aspect_ratio_bucket_indices = EmptyIndex
                                                /\ instance_images_path = {})]
    /\ UNCHANGED <<listing, cache, mgr, aspect_ratio_bucket_indices, instance_images_path>>
    /\ UNCHANGED <<repairs, ledgerVars, rankVars>>

\* _bucket_worker, lines 130-136: the loop over the files of the shard.
\* unreadable are the files process_for_bucket fails on.
RECURSIVE BucketShardStops(_, _, _, _)
BucketShardStops(files, existing, unreadable, idx) ==
    IF files = <<>> \/ Head(files) \in unreadable THEN idx
    ELSE LET file == Head(files)
         IN  BucketShardStops(Tail(files), existing, unreadable,
                              IF file \notin existing
                              THEN process_for_bucket(file, idx, TRUE)
                              ELSE idx)

RECURSIVE BucketShard(_, _, _, _)
BucketShard(files, existing, unreadable, idx) ==
    IF files = <<>> THEN idx
    ELSE LET file == Head(files)
         IN  BucketShard(Tail(files), existing, unreadable,
                         IF file \notin existing
                         THEN process_for_bucket(file, idx, file \notin unreadable)
                         ELSE idx)

\* _bucket_worker: the shard is bucketed, one progress unit is put per file,
\* and the partial index is put on the results queue (line 137).
_bucket_worker(w, unreadable) ==
    /\ wstate[w] = "run"
    /\ unreadable \subseteq Range(files_split[w]) \ existing_files_set
    /\ LET local == BucketShard(files_split[w], existing_files_set, unreadable, EmptyIndex)
       IN  /\ local_aspect_ratio_bucket_indices' =
                  [local_aspect_ratio_bucket_indices EXCEPT ![w] = local]
           /\ aspect_ratio_bucket_indices_queue' =
                  Append(aspect_ratio_bucket_indices_queue, local)
    /\ failed' = failed \cup unreadable
    /\ tqdm_queue' = tqdm_queue + Len(files_split[w])
    /\ wstate' = [wstate EXCEPT ![w] = "put"]
    /\ UNCHANGED <<listing, cache, mgr, aspect_ratio_bucket_indices, instance_images_path,
                   pc, op, new_files, existing_files_set, files_split, last, snap, quiet>>
    /\ UNCHANGED <<repairs, ledgerVars, rankVars>>

\* The worker process ends: is_alive() is false from here on.
WorkerExit(w) ==
    /\ wstate[w] = "put"
    /\ wstate' = [wstate EXCEPT ![w] = "dead"]
    /\ UNCHANGED <<listing, cache, mgr, aspect_ratio_bucket_indices, instance_images_path,
                   pc, op, new_files, existing_files_set, files_split,
                   local_aspect_ratio_bucket_indices, tqdm_queue,
                   aspect_ratio_bucket_indices_queue, failed, last, snap, quiet>>
    /\ UNCHANGED <<repairs, ledgerVars, rankVars>>

\* Lines 179-181: while any(worker.is_alive() for worker in workers), and in
\* the loop the drain of tqdm_queue into the progress bar.  Nothing else reads
\* tqdm_queue, so its drain is taken at the moment of the liveness check.
IsAlive ==
    /\ pc = "is_alive"
    /\ IF \E w \in Workers : wstate[w] # "dead"
       THEN tqdm_queue' = 0 /\ pc' = "results_queue"
       ELSE tqdm_queue' = tqdm_queue /\ pc' = "join"
    /\ UNCHANGED <<listing, cache, mgr, aspect_ratio_bucket_indices, instance_images_path,
                   op, new_files, existing_files_set, files_split, wstate,
                   local_aspect_ratio_bucket_indices,
                   aspect_ratio_bucket_indices_queue, failed, last, snap, quiet>>
    /\ UNCHANGED <<repairs, ledgerVars, rankVars>>

\* Lines 182-189: while not the results queue is empty, get one partial index
\* and append each of its lists to the bucket of the same key.
DrainResultsBlocks ==
    /\ pc = "results_queue"
    /\ aspect_ratio_bucket_indices_queue # <<>>
    /\ aspect_ratio_bucket_indices' =
           Merge(aspect_ratio_bucket_indices, Head(aspect_ratio_bucket_indices_queue))
    /\ aspect_ratio_bucket_indices_queue' = Tail(aspect_ratio_bucket_indices_queue)
    /\ UNCHANGED <<listing, cache, mgr, instance_images_path, pc, op, new_files,
                   existing_files_set, files_split, wstate,
                   local_aspect_ratio_bucket_indices, tqdm_queue, failed, last, snap, quiet>>
    /\ UNCHANGED <<repairs, ledgerVars, rankVars>>
DrainResults ==
    /\ pc = "results_queue"
    /\ IF aspect_ratio_bucket_indices_queue # <<>>
       THEN /\ aspect_ratio_bucket_indices' =
                   Merge(aspect_ratio_bucket_indices, Head(aspect_ratio_bucket_indices_queue))
            /\ aspect_ratio_bucket_indices_queue' = Tail(aspect_ratio_bucket_indices_queue)
            /\ pc' = pc
       ELSE /\ pc' = "is_alive"
            /\ UNCHANGED <<aspect_ratio_bucket_indices, aspect_ratio_bucket_indices_queue>>
    /\ UNCHANGED <<listing, cache, mgr, instance_images_path, op, new_files,
                   existing_files_set, files_split, wstate,
                   local_aspect_ratio_bucket_indices, tqdm_queue, failed, last, snap, quiet>>
    /\ UNCHANGED <<repairs, ledgerVars, rankVars>>

\* Lines 191-196: the joins, instance_images_path.update(new_files) and
\* _save_cache (lines 95-108); the call returns.
JoinAndSave ==
    /\ pc = "join"
    /\ \A w \in Workers : wstate[w] = "dead"
    /\ LET discovered == UpdateDiscovered(instance_images_path, new_files,
                                          aspect_ratio_bucket_indices)
           pruned == _enforce_min_bucket_size(aspect_ratio_bucket_indices)
       IN  /\ instance_images_path' = discovered
           /\ aspect_ratio_bucket_indices' = pruned
           /\ cache' = CacheDocument(pruned, discovered)
    /\ last' = [last EXCEPT !.op = "compute",
                            !.unmerged = aspect_ratio_bucket_indices_queue,
                            !.failed = failed,
                            !.evicted = Evicted(aspect_ratio_bucket_indices),
                            !.writes = @ + 1]
    /\ pc' = IF op = "refresh" THEN "list_files" ELSE "idle"
    /\ op' = IF op = "refresh" THEN op ELSE "none"
    /\ CallOver
    /\ UNCHANGED <<listing, mgr, snap, quiet>>
    /\ UNCHANGED <<repairs, ledgerVars, rankVars>>

\* ------------------------------------------------------- the other operations
\* update_buckets_with_existing_files: the filter, then _save_cache.
UpdateAndSave(name, existing_files) ==
    LET filtered == FilterExisting(aspect_ratio_bucket_indices, existing_files)
        pruned == _enforce_min_bucket_size(filtered)
    IN  /\ aspect_ratio_bucket_indices' = pruned
        /\ cache' = CacheDocument(pruned, instance_images_path)
        /\ last' = Saved(name, existing_files, filtered)

update_buckets_with_existing_files(existing_files) ==
    /\ Idle
    /\ UpdateAndSave("update", existing_files)
    /\ NotRefresh
    /\ UNCHANGED <<listing, mgr, instance_images_path, pc, op, callVars>>
    /\ UNCHANGED <<repairs, ledgerVars, rankVars>>

\* refresh_buckets, lines 261-277, after compute has returned.
refresh_buckets ==
    /\ mgr = "ready"
    /\ pc = "list_files"
    /\ UpdateAndSave("refresh", Range(list_files))
    /\ pc' = "idle"
    /\ op' = "none"
    /\ UNCHANGED <<listing, mgr, instance_images_path, callVars, snap, quiet>>
    /\ UNCHANGED <<repairs, ledgerVars, rankVars>>

\* _save_cache on its own.
save_cache ==
    /\ Idle
    /\ LET pruned == _enforce_min_bucket_size(aspect_ratio_bucket_indices)
       IN  /\ aspect_ratio_bucket_indices' = pruned
           /\ cache' = CacheDocument(pruned, instance_images_path)
    /\ last' = Saved("save", {}, aspect_ratio_bucket_indices)
    /\ NotRefresh
    /\ UNCHANGED <<listing, mgr, instance_images_path, pc, op, callVars>>
    /\ UNCHANGED <<repairs, ledgerVars, rankVars>>

\* The index remove_image leaves (lines 236-237); bucket is a key of idx.
RemoveFrom(idx, image_path, bucket) ==
    [idx EXCEPT ![bucket] = RemoveFirst(@, image_path)]

\* remove_image: a bucket that is no key of the index raises KeyError.
remove_image(image_path, bucket) ==
    /\ Idle
    /\ repairs < MaxRepairs
    /\ repairs' = repairs + 1
    /\ IF bucket \in DOMAIN aspect_ratio_bucket_indices
       THEN /\ aspect_ratio_bucket_indices' =
                   RemoveFrom(aspect_ratio_bucket_indices, image_path, bucket)
            /\ last' = Returned("remove", {}, EmptyIndex)
       ELSE /\ UNCHANGED aspect_ratio_bucket_indices
            /\ last' = Raised("remove")
    /\ NotRefresh
    /\ UNCHANGED <<listing, cache, mgr, instance_images_path, pc, op, callVars>>
    /\ UNCHANGED <<ledgerVars, rankVars>>

\* The index handle_incorrect_bucket leaves (lines 302-308); bucket is a key of idx.
MoveToKeeps(idx, image_path, bucket, actual_bucket) ==
    Extend(idx, actual_bucket, <<image_path>>)
MoveTo(idx, image_path, bucket, actual_bucket) ==
    Extend(RemoveFrom(idx, image_path, bucket), actual_bucket, <<image_path>>)

handle_incorrect_bucket(image_path, bucket, actual_bucket) ==
    /\ Idle
    /\ repairs < MaxRepairs
    /\ repairs' = repairs + 1
    /\ IF bucket \in DOMAIN aspect_ratio_bucket_indices
       THEN /\ IndexLen(MoveTo(aspect_ratio_bucket_indices, image_path, bucket,
                               actual_bucket)) <= MaxEntries
            /\ aspect_ratio_bucket_indices' =
                   MoveTo(aspect_ratio_bucket_indices, image_path, bucket, actual_bucket)
            /\ last' = Returned("incorrect", {}, EmptyIndex)
       ELSE /\ UNCHANGED aspect_ratio_bucket_indices
            /\ last' = Raised("incorrect")
    /\ NotRefresh
    /\ UNCHANGED <<listing, cache, mgr, instance_images_path, pc, op, callVars>>
    /\ UNCHANGED <<ledgerVars, rankVars>>

\* handle_small_image: with delete_unwanted_images the backend is asked to
\* remove the file, and whatever that raises is swallowed (lines 321-330);
\* removed says whether the backend removed it.  Then remove_image.
handle_small_image(image_path, bucket, delete_unwanted_images, removed) ==
    /\ Idle
    /\ repairs < MaxRepairs
    /\ repairs' = repairs + 1
    /\ removed => delete_unwanted_images /\ image_path \in listing
    /\ listing' = IF removed THEN listing \ {image_path} ELSE listing
    /\ IF bucket \in DOMAIN aspect_ratio_bucket_indices
       THEN /\ aspect_ratio_bucket_indices' =
                   RemoveFrom(aspect_ratio_bucket_indices, image_path, bucket)
            /\ last' = Returned("small", {}, EmptyIndex)
       ELSE /\ UNCHANGED aspect_ratio_bucket_indices
            /\ last' = Raised("small")
    /\ NotRefresh
    /\ UNCHANGED <<cache, mgr, instance_images_path, pc, op, callVars>>
    /\ UNCHANGED <<ledgerVars, rankVars>>

Next ==
    \/ load_cache
    \/ \E f \in Files : AddFile(f)
    \/ \E f \in Files : DeleteFile(f)
    \/ \E name \in {"compute", "refresh"} : Start(name)
    \/ \E w \in Workers, unreadable \in SUBSET Files : _bucket_worker(w, unreadable)
    \/ \E w \in Workers : WorkerExit(w)
    \/ IsAlive
    \/ DrainResults
    \/ JoinAndSave
    \/ refresh_buckets
    \/ \E existing_files \in SUBSET Files :
          update_buckets_with_existing_files(existing_files)
    \/ save_cache
    \/ \E image_path \in Files, bucket \in Keys : remove_image(image_path, bucket)
    \/ \E image_path \in Files, bucket \in Keys, actual_bucket \in Keys :
          handle_incorrect_bucket(image_path, bucket, actual_bucket)
    \/ \E image_path \in Files, bucket \in Keys, d \in BOOLEAN, removed \in BOOLEAN :
          handle_small_image(image_path, bucket, d, removed)

Spec == Init /\ [][Next]_vars

\* The position of the orchestrating process.
TypeOK == pc \in {"idle", "is_alive", "results_queue", "join", "list_files"}

\* --------------------------------------------------------- the seen images
\* The variables of the manager, its backend and its workers.
managerVars == <<listing, cache, mgr, aspect_ratio_bucket_indices, instance_images_path,
                 pc, op, new_files, existing_files_set, files_split, wstate,
                 local_aspect_ratio_bucket_indices, tqdm_queue,
                 aspect_ratio_bucket_indices_queue, failed, last, snap, quiet, repairs>>

\* A manager that __init__ has made and that holds index idx, all the files
\* of the backend discovered.
Constructed(idx) ==
    /\ listing = Files
    /\ cache = AbsentCache
    /\ mgr = "ready"
    /\ aspect_ratio_bucket_indices = idx
    /\ instance_images_path = Files
    /\ pc = "idle"
    /\ op = "none"
    /\ new_files = <<>>
    /\ existing_files_set = {}
    /\ files_split = [w \in Workers |-> <<>>]
    /\ wstate = NoWorkers
    /\ local_aspect_ratio_bucket_indices = [w \in Workers |-> EmptyIndex]
    /\ tqdm_queue = 0
    /\ aspect_ratio_bucket_indices_queue = <<>>
    /\ failed = {}
    /\ last = [NoCall EXCEPT !.op = "load"]
    /\ snap = NoSnap
    /\ quiet = FALSE
    /\ repairs = 0

\* __init__, lines 34-36: every manager object gets a Manager process of its
\* own and seen_images is a proxy of a dict in it.  A process that has made
\* its manager object itself (one rank of the accelerator) talks to its own
\* Manager; a process that was given the object of process 1 (a child it has
\* forked) talks to the Manager of process 1.
SeenInit ==
    /\ Constructed(EmptyIndex)
    /\ NoRanks
    /\ manager_of \in {f \in [Procs -> Procs] : f[1] = 1 /\ \A p \in Procs : f[p] \in {1, p}}
    /\ seen_images = [p \in Procs |-> {}]
    /\ call = [p \in Procs |-> NoCallRunning]
    /\ known_seen = {}
    /\ known_unseen = Files

\* The processes that are in a call of operation o.
InFlight(o) == {p \in Procs : call[p].op = o /\ call[p].phase # "idle"}

\* dict.__setitem__(image_path, True) in the Manager process.
SetItem(d, image_path) == d \cup {image_path}

\* mark_as_seen, line 215: the proxy sends the request.  dirty says that the
\* call and a reset_seen_images are in flight together.
mark_as_seen(p, image_path) ==
    /\ call[p].phase = "idle"
    /\ call' = [q \in Procs |->
                  IF q = p
                  THEN [NoCallRunning EXCEPT
                            !.op = "mark", !.ref = image_path, !.phase = "sent",
                            !.dirty = IF InFlight("reset") # {} THEN {image_path} ELSE {}]
                  ELSE IF q \in InFlight("reset")
                  THEN [call[q] EXCEPT !.dirty = @ \cup {image_path}]
                  ELSE IF q \in InFlight("is_seen") /\ call[q].ref = image_path
                  THEN [call[q] EXCEPT !.must = IF @ = "false" THEN "any" ELSE @]
                  ELSE call[q]]
    /\ known_unseen' = known_unseen \ {image_path}
    /\ UNCHANGED <<manager_of, seen_images, known_seen>>
    /\ UNCHANGED <<managerVars, rankVars>>

\* is_seen, line 219: the proxy sends the request.  must is what the call has
\* to return: "true" for a file marked by a call that is over, "false" for a
\* file that no call has marked since the ledger was new or reset.
is_seen(p, image_path) ==
    /\ call[p].phase = "idle"
    /\ call' = [call EXCEPT ![p] =
                  [NoCallRunning EXCEPT
                       !.op = "is_seen", !.ref = image_path, !.phase = "sent",
                       !.must = IF image_path \in known_seen THEN "true"
                                ELSE IF image_path \in known_unseen THEN "false"
                                ELSE "any"]]
    /\ UNCHANGED <<manager_of, seen_images, known_seen, known_unseen>>
    /\ UNCHANGED <<managerVars, rankVars>>

\* reset_seen_images, line 223: the proxy sends the request.
reset_seen_images(p) ==
    /\ call[p].phase = "idle"
    /\ call' = [q \in Procs |->
                  IF q = p
                  THEN [NoCallRunning EXCEPT
                            !.op = "reset", !.phase = "sent",
                            !.dirty = {call[m].ref : m \in InFlight("mark")}]
                  ELSE IF q \in InFlight("mark")
                  THEN [call[q] EXCEPT !.dirty = {call[q].ref}]
                  ELSE IF q \in InFlight("is_seen")
                  THEN [call[q] EXCEPT !.must = IF @ = "true" THEN "any" ELSE @]
                  ELSE call[q]]
    /\ known_seen' = {}
    /\ UNCHANGED <<manager_of, seen_images, known_unseen>>
    /\ UNCHANGED <<managerVars, rankVars>>

\* The Manager process that the proxy of p talks to serves the request: one
\* operation on its dict (__setitem__, get or clear), one at a time.
Serve(p) ==
    /\ call[p].phase = "sent"
    /\ LET m == manager_of[p]
       IN  /\ seen_images' =
                  [seen_images EXCEPT
                       ![m] = IF call[p].op = "mark" THEN SetItem(@, call[p].ref)
                              ELSE IF call[p].op = "reset" THEN {}
                              ELSE @]
           /\ call' = [call EXCEPT
                           ![p].phase = "served",
                           ![p].result = (call[p].op = "is_seen"
                                              /\ call[p].ref \in seen_images[m])]
    /\ UNCHANGED <<manager_of, known_seen, known_unseen>>
    /\ UNCHANGED <<managerVars, rankVars>>

\* The call returns to the process.
Return(p) ==
    /\ call[p].phase = "served"
    /\ call' = [call EXCEPT ![p] = NoCallRunning]
    /\ known_seen' = IF call[p].op = "mark" /\ call[p].dirty = {}
                     THEN known_seen \cup {call[p].ref}
                     ELSE known_seen
    /\ known_unseen' = IF call[p].op = "reset"
                       THEN Files \ call[p].dirty
                       ELSE known_unseen
    /\ UNCHANGED <<manager_of, seen_images>>
    /\ UNCHANGED <<managerVars, rankVars>>

SeenNext ==
    \/ \E p \in Procs, image_path \in Files : mark_as_seen(p, image_path)
    \/ \E p \in Procs, image_path \in Files : is_seen(p, image_path)
    \/ \E p \in Procs : reset_seen_images(p)
    \/ \E p \in Procs : Serve(p)
    \/ \E p \in Procs : Return(p)

SeenSpec == SeenInit /\ [][SeenNext]_vars

\* ------------------------------------------ split_buckets_between_processes
Min(a, b) == IF a < b THEN a ELSE b

\* accelerator.split_between_processes(inputs, apply_padding) as the process
\* of index process_index (from 0) sees it: the list is cut into
\* num_processes contiguous slices of ceil(len / num_processes) entries, the
\* last ones shorter or empty; with apply_padding a slice that is shorter is
\* filled up with the last entry.
split_between_processes(inputs, process_index, apply_padding) ==
    LET num_samples_per_process == (Len(inputs) + num_processes - 1) \div num_processes
        start_index == process_index * num_samples_per_process
        end_index == Min(start_index + num_samples_per_process, Len(inputs))
        result == SubSeq(inputs, start_index + 1, end_index)
        filler == IF result # <<>> THEN result[Len(result)] ELSE inputs[Len(inputs)]
    IN  IF apply_padding /\ inputs # <<>>
        THEN result \o [i \in 1..(num_samples_per_process - Len(result)) |-> filler]
        ELSE result

\* Lines 202-211: every bucket of the index gets the slice of its list that
\* is this process's, under the same key.
SplitIndexUnpadded(idx, process_index, apply_padding) ==
    [bucket \in DOMAIN idx |-> split_between_processes(idx[bucket], process_index, FALSE)]
SplitIndex(idx, process_index, apply_padding) ==
    [bucket \in DOMAIN idx |->
        split_between_processes(idx[bucket], process_index, apply_padding)]

\* The lists of files with no file twice.
Lists ==
    {s \in UNION {[1..n -> Files] : n \in 0..MaxEntries} :
        \A i \in DOMAIN s : \A j \in DOMAIN s : s[i] = s[j] => i = j}

\* The indices with no file twice that every rank may have loaded.
LoadedIndices ==
    {idx \in UNION {[K -> Lists] : K \in SUBSET Keys} :
        /\ IndexLen(idx) <= MaxEntries
        /\ \A k1 \in DOMAIN idx : \A k2 \in DOMAIN idx \ {k1} :
               Range(idx[k1]) \cap Range(idx[k2]) = {}}

\* Every rank has made its manager over the same cache document and holds
\* the same index.
SplitInit ==
    /\ \E idx \in LoadedIndices :
           /\ Constructed(idx)
           /\ rank_indices = [r \in Ranks |-> idx]
    /\ NoLedger
    /\ apply_dataset_padding \in BOOLEAN
    /\ rank_split = [r \in Ranks |-> FALSE]

\* split_buckets_between_processes in the process of rank r (process_index r - 1).
split_buckets_between_processes(r) ==
    /\ ~rank_split[r]
    /\ rank_indices' =
           [rank_indices EXCEPT ![r] = SplitIndex(@, r - 1, apply_dataset_padding)]
    /\ rank_split' = [rank_split EXCEPT ![r] = TRUE]
    /\ UNCHANGED <<managerVars, ledgerVars, apply_dataset_padding>>

SplitNext == \E r \in Ranks : split_buckets_between_processes(r)

SplitSpec == SplitInit /\ [][SplitNext]_vars

\* ------------------------------------------------- compute under fairness
\* The construction and the calls of compute and refresh_buckets over a
\* backend that no one else changes.
LiveNext ==
    \/ load_cache
    \/ \E name \in {"compute", "refresh"} : Start(name)
    \/ \E w \in Workers, unreadable \in SUBSET Files : _bucket_worker(w, unreadable)
    \/ \E w \in Workers : WorkerExit(w)
    \/ IsAlive
    \/ DrainResults
    \/ JoinAndSave
    \/ refresh_buckets

\* Every worker process runs on (process_for_bucket returns for each file),
\* and so does the process that called compute: its busy loop (lines 179-189)
\* and its joins (lines 191-192) block on nothing but the workers.
Fairness ==
    /\ \A w \in Workers :
           WF_vars(\E unreadable \in SUBSET Files : _bucket_worker(w, unreadable))
    /\ \A w \in Workers : WF_vars(WorkerExit(w))
    /\ WF_vars(IsAlive)
    /\ WF_vars(DrainResults)
    /\ WF_vars(JoinAndSave)

LiveSpec == Init /\ [][LiveNext]_vars /\ Fairness

\* ------------------------------------------------------------------ claims
\* No public operation is running.
AtRest == mgr = "ready" /\ pc = "idle"

\* compute_aspect_ratio_bucket_indices has just returned after running workers.
ComputeReturned == last.op = "compute"

\* C1: when compute returns, nothing that a worker put on the results queue
\* is left on it: every partial index has been merged.
C1_NoMessageLeft == ComputeReturned => last.unmerged = <<>>

\* C2: no file is in the lists of two buckets.
C2_NoDuplication ==
    \A k1 \in DOMAIN aspect_ratio_bucket_indices :
        \A k2 \in DOMAIN aspect_ratio_bucket_indices \ {k1} :
            Range(aspect_ratio_bucket_indices[k1])
                \cap Range(aspect_ratio_bucket_indices[k2]) = {}

\* C3: between operations, every file of the index is in instance_images_path.
C3_DiscoveredSuperset ==
    AtRest => IndexFiles(aspect_ratio_bucket_indices) \subseteq instance_images_path

\* C4: when compute returns, every file _discover_new_files gave it is in
\* instance_images_path, bucketed or not.
C4_DiscoveryComplete == ComputeReturned => last.files \subseteq instance_images_path

\* A call of compute returned with a new file that is in no bucket and a new
\* file that is in one.
C4_Witness ==
    /\ ComputeReturned
    /\ last.files \ IndexFiles(aspect_ratio_bucket_indices) # {}
    /\ last.files \cap IndexFiles(aspect_ratio_bucket_indices) # {}

\* What _save_cache leaves of the index before that it was called with: the
\* document holds the index that is in memory, no bucket of it is shorter
\* than batch_size, and every bucket that was at least that long is in it
\* with its list as it was.
SaveOK(before, after, document) ==
    /\ document.kind = "object"
    /\ document.fields = FieldNames
    /\ document.idx = after
    /\ \A k \in DOMAIN after : Len(after[k]) >= batch_size
    /\ \A k \in DOMAIN before :
           Len(before[k]) >= batch_size => k \in DOMAIN after /\ after[k] = before[k]

\* C5: every save (at the end of compute, of update-with-existing, of refresh,
\* or on its own; last.files is the existing_files an update was called with)
\* leaves in memory and in the cache document exactly the
\* buckets that had at least batch_size files, unchanged.
C5_MinSizePruning ==
    [][ /\ JoinAndSave =>
              SaveOK(aspect_ratio_bucket_indices, aspect_ratio_bucket_indices', cache')
        /\ (last'.op = "save" /\ save_cache) =>
              SaveOK(aspect_ratio_bucket_indices, aspect_ratio_bucket_indices', cache')
        /\ (last'.op = "update" /\ update_buckets_with_existing_files(last'.files)) =>
              SaveOK(FilterExisting(aspect_ratio_bucket_indices, last'.files),
                     aspect_ratio_bucket_indices', cache')
        /\ refresh_buckets =>
              SaveOK(FilterExisting(aspect_ratio_bucket_indices, listing),
                     aspect_ratio_bucket_indices', cache') ]_vars

\* A save dropped a short bucket and kept one of exactly batch_size files.
C5_Witness ==
    /\ last.op \in {"compute", "update", "refresh", "save"}
    /\ last.evicted # {}
    /\ \E k \in DOMAIN aspect_ratio_bucket_indices :
           Len(aspect_ratio_bucket_indices[k]) = batch_size
    /\ cache.idx = aspect_ratio_bucket_indices

\* C6 as claimed: after update_buckets_with_existing_files(existing_files),
\* every file that was in a bucket is gone if it is not in existing_files and
\* is still in that bucket if it is.
C6_StaleRemovalAsClaimed ==
    [][ (last'.op = "update" /\ update_buckets_with_existing_files(last'.files)) =>
            \A k \in DOMAIN aspect_ratio_bucket_indices :
                \A f \in Range(aspect_ratio_bucket_indices[k]) :
                    IF f \in last'.files
                    THEN /\ k \in DOMAIN aspect_ratio_bucket_indices'
                         /\ f \in Range(aspect_ratio_bucket_indices'[k])
                    ELSE f \notin IndexFiles(aspect_ratio_bucket_indices') ]_vars

\* The entries of a bucket that are in existing_files.
Surviving(idx, k, existing_files) == SelectSeq(idx[k], LAMBDA img : img \in existing_files)

\* What update-with-existing leaves of the index before: no file outside
\* existing_files, and of each bucket its entries that are in existing_files,
\* in their order, when they are at least batch_size; the bucket is dropped
\* when they are fewer.
StaleRemoved(before, after, existing_files) ==
    /\ IndexFiles(after) \subseteq existing_files
    /\ DOMAIN after \subseteq DOMAIN before
    /\ \A k \in DOMAIN before :
           IF Len(Surviving(before, k, existing_files)) >= batch_size
           THEN k \in DOMAIN after /\ after[k] = Surviving(before, k, existing_files)
           ELSE k \notin DOMAIN after

\* C6 as amended: after update_buckets_with_existing_files(existing_files)
\* (also as refresh_buckets calls it) no file outside existing_files is in
\* the index, and a file of existing_files is still in its bucket unless
\* fewer than batch_size entries of that bucket are in existing_files, in
\* which case the save has dropped the bucket.
C6_StaleRemoval ==
    [][ /\ (last'.op = "update" /\ update_buckets_with_existing_files(last'.files)) =>
              StaleRemoved(aspect_ratio_bucket_indices,
                           aspect_ratio_bucket_indices', last'.files)
        /\ refresh_buckets =>
              StaleRemoved(aspect_ratio_bucket_indices,
                           aspect_ratio_bucket_indices', listing) ]_vars

\* update-with-existing returned having dropped a file that is in
\* existing_files, its bucket having become too short, while another bucket
\* kept its files.
C6_Witness ==
    /\ last.op = "update"
    /\ last.evicted \cap last.files # {}

\* C7: a second refresh_buckets right after a first one, the listing being the
\* same from the start of the first to the end of the second, leaves the
\* index, instance_images_path and the cache document as the first left them.
C7_RefreshIdempotent ==
    (AtRest /\ last.op = "refresh" /\ snap.taken /\ quiet) =>
        /\ aspect_ratio_bucket_indices = snap.idx
        /\ instance_images_path = snap.paths
        /\ cache = snap.cache

\* A second refresh in a row returned, over a listing that did not change,
\* with files in the index.
C7_Witness ==
    /\ AtRest /\ last.op = "refresh" /\ snap.taken /\ quiet
    /\ aspect_ratio_bucket_indices # EmptyIndex
    /\ listing \ IndexFiles(aspect_ratio_bucket_indices) # {}

\* The new files of the last compute that process_for_bucket maps to key k.
Assigned(k) == {f \in last.files \ last.failed : BucketOf(f) = k}

\* C8: a compute that began with an absent cache, an empty index and an empty
\* instance_images_path leaves each key that at least batch_size of the
\* listed files map to with exactly those files, no other key, and
\* instance_images_path equal to the listed files.
C8_FreshCompute ==
    (ComputeReturned /\ last.from_empty) =>
        /\ instance_images_path = last.files
        /\ \A k \in Keys :
               IF Cardinality(Assigned(k)) >= batch_size
               THEN /\ k \in DOMAIN aspect_ratio_bucket_indices
                    /\ Range(aspect_ratio_bucket_indices[k]) = Assigned(k)
                    /\ Len(aspect_ratio_bucket_indices[k]) = Cardinality(Assigned(k))
               ELSE k \notin DOMAIN aspect_ratio_bucket_indices

\* C9: construction completes whatever the cache document is, and a part the
\* document does not give is empty.
C9_LoadNeverFails ==
    last.op = "load" =>
        /\ mgr = "ready"
        /\ ~(cache.kind = "object" /\ "aspect_ratio_bucket_indices" \in cache.fields)
               => aspect_ratio_bucket_indices = EmptyIndex
        /\ ~(cache.kind = "object" /\ "instance_images_path" \in cache.fields)
               => instance_images_path = {}

\* C10: a worker whose shard holds files process_for_bucket fails on puts a
\* partial index that holds every other file of the shard that was not yet
\* in a bucket; and when compute returns the files that failed are in
\* instance_images_path and in no bucket.
C10_FailureSkipsOneFile ==
    [][ /\ \A w \in Workers, unreadable \in SUBSET Files :
              (wstate[w] = "run" /\ failed' = failed \cup unreadable
                   /\ _bucket_worker(w, unreadable)) =>
                  /\ IndexFiles(local_aspect_ratio_bucket_indices'[w]) =
                         Range(files_split[w]) \ (existing_files_set \cup unreadable)
                  /\ aspect_ratio_bucket_indices_queue' =
                         Append(aspect_ratio_bucket_indices_queue,
                                local_aspect_ratio_bucket_indices'[w])
        /\ JoinAndSave =>
              /\ failed \subseteq instance_images_path'
              /\ failed \cap IndexFiles(aspect_ratio_bucket_indices') = {}
              /\ last'.failed = failed ]_vars

\* A worker has put its partial index with a file in it that comes later in
\* its shard than a file that failed, and the other worker had a file too.
C10_Witness ==
    \E w \in Workers :
        /\ wstate[w] \in {"put", "dead"}
        /\ \E i \in 1..(Len(files_split[w]) - 1) :
               /\ files_split[w][i] \in failed
               /\ files_split[w][i + 1] \in IndexFiles(local_aspect_ratio_bucket_indices[w])
        /\ \E v \in Workers \ {w} : files_split[v] # <<>>

\* The entries of a list other than ref, in their order.
Without(s, ref) == SelectSeq(s, LAMBDA y : y # ref)

\* How often ref is in a list.
Occurrences(s, ref) == Cardinality({i \in DOMAIN s : s[i] = ref})

\* The list of a bucket, empty for a key the index does not have.
ListOf(idx, k) == IF k \in DOMAIN idx THEN idx[k] ELSE <<>>

\* C11 as claimed: handle_incorrect_bucket(ref, fromBucket, toBucket) on an
\* index that has ref in fromBucket leaves ref absent from fromBucket and last
\* in toBucket (a new bucket if there was none), every other entry of every
\* bucket as it was and in its order.
C11_MoveAsClaimed ==
    [][ \A image_path \in Files, bucket \in Keys, actual_bucket \in Keys :
            (/\ last'.op = "incorrect"
             /\ bucket \in DOMAIN aspect_ratio_bucket_indices
             /\ image_path \in Range(aspect_ratio_bucket_indices[bucket])
             /\ handle_incorrect_bucket(image_path, bucket, actual_bucket)) =>
                /\ last'.error = "none"
                /\ DOMAIN aspect_ratio_bucket_indices' =
                       DOMAIN aspect_ratio_bucket_indices \cup {actual_bucket}
                /\ image_path \notin Range(aspect_ratio_bucket_indices'[bucket])
                /\ aspect_ratio_bucket_indices'[actual_bucket] =
                       Without(ListOf(aspect_ratio_bucket_indices, actual_bucket), image_path)
                           \o <<image_path>>
                /\ \A k \in DOMAIN aspect_ratio_bucket_indices \ {actual_bucket} :
                       aspect_ratio_bucket_indices'[k] =
                           IF k = bucket
                           THEN Without(aspect_ratio_bucket_indices[k], image_path)
                           ELSE aspect_ratio_bucket_indices[k] ]_vars

\* What handle_incorrect_bucket(ref, from, to) leaves of the index before:
\* the keys of before and to; ref last in to; in every bucket the entries
\* other than ref as they were and in their order; one occurrence of ref
\* fewer in from and one more in to.
Moved(before, after, ref, from, to) ==
    /\ DOMAIN after = DOMAIN before \cup {to}
    /\ after[to] # <<>>
    /\ after[to][Len(after[to])] = ref
    /\ \A k \in DOMAIN after :
           /\ Without(after[k], ref) = Without(ListOf(before, k), ref)
           /\ Occurrences(after[k], ref) =
                  Occurrences(ListOf(before, k), ref)
                      - (IF k = from THEN 1 ELSE 0) + (IF k = to THEN 1 ELSE 0)

\* C11 as amended: handle_incorrect_bucket(ref, fromBucket, toBucket) on an
\* index that has ref in fromBucket returns, takes one occurrence of ref out
\* of fromBucket and makes ref the last entry of toBucket (a new bucket if
\* there was none), every other entry of every bucket as it was and in its
\* order; ref is absent from fromBucket afterwards when it was in it once
\* and toBucket is another bucket.
C11_Move ==
    [][ \A image_path \in Files, bucket \in Keys, actual_bucket \in Keys :
            (/\ last'.op = "incorrect"
             /\ bucket \in DOMAIN aspect_ratio_bucket_indices
             /\ image_path \in Range(aspect_ratio_bucket_indices[bucket])
             /\ handle_incorrect_bucket(image_path, bucket, actual_bucket)) =>
                /\ last'.error = "none"
                /\ Moved(aspect_ratio_bucket_indices, aspect_ratio_bucket_indices',
                         image_path, bucket, actual_bucket)
                /\ (/\ bucket # actual_bucket
                    /\ Occurrences(aspect_ratio_bucket_indices[bucket], image_path) = 1)
                       => image_path \notin Range(aspect_ratio_bucket_indices'[bucket]) ]_vars

\* handle_incorrect_bucket(1, "1:1", "16:9") has returned on the index
\* {"1:1": [1, 2], "16:9": [3]}.
C11_Witness ==
    /\ last.op = "incorrect"
    /\ last.error = "none"
    /\ aspect_ratio_bucket_indices = ("1:1" :> <<2>> @@ "16:9" :> <<3, 1>>)

\* C12: remove_image(ref, bucket) returns whatever the index is; ref is in the
\* list of bucket no more, and nothing else has changed (so that a second
\* call changes nothing); an index that has no such bucket is left as it is.
C12_RemoveNeverFails ==
    [][ \A image_path \in Files, bucket \in Keys :
            (last'.op = "remove" /\ remove_image(image_path, bucket)) =>
                /\ last'.error = "none"
                /\ aspect_ratio_bucket_indices' =
                       IF bucket \in DOMAIN aspect_ratio_bucket_indices
                       THEN [aspect_ratio_bucket_indices EXCEPT
                                 ![bucket] = Without(@, image_path)]
                       ELSE aspect_ratio_bucket_indices ]_vars

\* C13: handle_small_image(ref, bucket, delete_unwanted_images) returns, ref
\* is not in the list of bucket afterwards, and with delete_unwanted_images a
\* file that the backend had is in the backend no more.
C13_SmallImageRemoved ==
    [][ \A image_path \in Files, bucket \in Keys, d \in BOOLEAN, removed \in BOOLEAN :
            (last'.op = "small" /\ handle_small_image(image_path, bucket, d, removed)) =>
                /\ last'.error = "none"
                /\ image_path \notin Range(ListOf(aspect_ratio_bucket_indices', bucket))
                /\ (d /\ image_path \in listing) => image_path \notin listing' ]_vars

\* C16: a call of compute for which _discover_new_files gives no file starts
\* no worker, writes no cache document and leaves the index and
\* instance_images_path as they were.
C16_NoNewFilesNoEffect ==
    [][ \A name \in {"compute", "refresh"} :
            (/\ _discover_new_files(list_files, instance_images_path) = <<>>
             /\ Start(name)) =>
                /\ UNCHANGED <<cache, aspect_ratio_bucket_indices, instance_images_path>>
                /\ wstate' = NoWorkers
                /\ pc' \notin {"is_alive", "results_queue", "join"}
                /\ last'.writes = 0
                /\ last'.error = "none" ]_vars

\* compute has returned at once over a backend that lists files, all of them
\* discovered, none of them in a bucket, the cache document being one that
\* holds no index.
C16_Witness ==
    /\ last.op = "no_new_files"
    /\ pc = "idle"
    /\ listing # {}
    /\ aspect_ratio_bucket_indices = EmptyIndex
    /\ cache.fields = {"instance_images_path"}

\* C17 as claimed: a call of compute that has new files and an index with no
\* bucket raises an error and goes no further.
C17_EmptyIndexRaises ==
    [][ \A name \in {"compute", "refresh"} :
            (/\ aspect_ratio_bucket_indices = EmptyIndex
             /\ _discover_new_files(list_files, instance_images_path) # <<>>
             /\ Start(name)) =>
                /\ last'.error # "none"
                /\ wstate' = NoWorkers ]_vars

\* C17 as amended: a call of compute that has new files and an index with no
\* bucket raises nothing: the union of the files of no bucket is the empty
\* set, and the call goes on to start every worker over the new files.
C17_EmptyIndexProceeds ==
    [][ \A name \in {"compute", "refresh"} :
            (/\ aspect_ratio_bucket_indices = EmptyIndex
             /\ _discover_new_files(list_files, instance_images_path) # <<>>
             /\ Start(name)) =>
                /\ last'.error = "none"
                /\ existing_files_set' = {}
                /\ new_files' = _discover_new_files(list_files, instance_images_path)
                /\ pc' = "is_alive"
                /\ \A w \in Workers : wstate'[w] = "run" ]_vars

\* compute is running over an index with no bucket, of a manager that has
\* discovered files before, and no worker has put anything yet.
C17_Witness ==
    /\ pc = "is_alive"
    /\ last.op = "running"
    /\ aspect_ratio_bucket_indices = EmptyIndex
    /\ instance_images_path # {}
    /\ new_files # <<>>
    /\ \A w \in Workers : wstate[w] = "run"

\* C18: a file of a bucket that _enforce_min_bucket_size dropped is in
\* instance_images_path and stays there; no later call of compute or of
\* refresh_buckets has a file of instance_images_path among its new files,
\* nor puts into a bucket a file that is not among its new files.
C18_EvictedStayOut ==
    [][ /\ last'.evicted \subseteq instance_images_path'
        /\ instance_images_path \subseteq instance_images_path'
        /\ \A name \in {"compute", "refresh"} :
               Start(name) => Range(new_files') \cap instance_images_path = {}
        /\ pc \in {"results_queue", "join", "list_files"} =>
               IndexFiles(aspect_ratio_bucket_indices')
                   \ IndexFiles(aspect_ratio_bucket_indices) \subseteq Range(new_files) ]_vars

\* The operations that end with _save_cache.
SaveOps == {"compute", "update", "refresh", "save"}

C14_SeenLedgerShared ==
    /\ \A p \in Procs :
           (call[p].op = "is_seen" /\ call[p].phase = "served") =>
               /\ call[p].must = "true" => call[p].result
               /\ call[p].must = "false" => ~call[p].result
    /\ \A p \in Procs :
           /\ known_seen \subseteq seen_images[manager_of[p]]
           /\ known_unseen \cap seen_images[manager_of[p]] = {}

\* C15: with apply_dataset_padding, once every rank has split the index that
\* all of them loaded, each rank has the keys of that index, and of every
\* bucket the slices of all ranks are equally long and hold between them
\* every file of the bucket.
C15_PaddedSplit ==
    (apply_dataset_padding /\ \A r \in Ranks : rank_split[r]) =>
        \A r \in Ranks :
            /\ DOMAIN rank_indices[r] = DOMAIN aspect_ratio_bucket_indices
            /\ \A k \in DOMAIN aspect_ratio_bucket_indices :
                   /\ \A q \in Ranks : Len(rank_indices[r][k]) = Len(rank_indices[q][k])
                   /\ Range(aspect_ratio_bucket_indices[k])
                          \subseteq UNION {Range(rank_indices[q][k]) : q \in Ranks}

\* Every rank has split, with padding, an index that has a bucket of more
\* files than there are ranks and not a multiple of their number.
C15_Witness ==
    /\ apply_dataset_padding
    /\ \A r \in Ranks : rank_split[r]
    /\ \E k \in DOMAIN aspect_ratio_bucket_indices :
           /\ Len(aspect_ratio_bucket_indices[k]) > num_processes
           /\ Len(aspect_ratio_bucket_indices[k]) % num_processes # 0
           /\ Len(rank_indices[num_processes][k]) = Len(rank_indices[1][k])

\* compute is between the start of its workers and its return.
Computing == pc \in {"is_alive", "results_queue", "join"}

\* C19: a call of compute that has started its workers returns; the step
\* that returns finds every worker dead and is the one write of the cache
\* document in the call, no step of the call before it (no merge of a partial
\* index among them) having written it.
C19_ComputeReturns ==
    /\ Computing ~> (last.op = "compute" /\ last.writes = 1 /\ ~Computing)
    /\ [][ JoinAndSave =>
               /\ \A w \in Workers : wstate[w] = "dead"
               /\ last.writes = 0
               /\ last'.writes = 1
               /\ ~Computing' ]_vars
    /\ [][ (Computing /\ Computing') => (cache' = cache /\ last'.writes = 0) ]_vars

\* compute has returned after it has merged every partial index, has dropped
\* a bucket that was too short and kept another, and has written the
\* cache document once.
C19_Witness ==
    /\ last.op = "compute"
    /\ pc = "idle"
    /\ last.writes = 1
    /\ last.unmerged = <<>>
    /\ Cardinality(DOMAIN aspect_ratio_bucket_indices) = 1
    /\ last.evicted # {}
    /\ cache.idx = aspect_ratio_bucket_indices
====
